---- MODULE Spec2Model ----
(***************************************************************************)
(* NiftyWatch screener (src/screener.py): calculate_rsi, the indicator and *)
(* signal block of run_screener, and run_screener's per-ticker loop and    *)
(* final filter.                                                           *)
(*                                                                         *)
(* Floats are IEEE binary64 values: a record [k, s, m, e] where k is "num" *)
(* (the value (-1)^s * m * 2^e with a 53-bit mantissa m), "zero" (signed), *)
(* "inf" (signed), "nan", or "none" (Python None).  Every arithmetic step  *)
(* rounds to the nearest double, ties to even, as the hardware does.  The  *)
(* mantissa is a natural number held as a little-endian sequence of 30-bit *)
(* limbs.  Closes and volumes are whole numbers, so window sums are exact  *)
(* and a rolling mean is one rounded division.  Series positions are       *)
(* 1-based here; position p is the bar with pandas index p - 1.            *)
(***************************************************************************)
EXTENDS Integers, Sequences, FiniteSets, TLC

(* ------------------------------ bounds --------------------------------- *)
MaxBars == 22
MaxTickers == 2

(* ------------------------- program constants --------------------------- *)
RSIWindow == 14
SMAWindow == 20
BuyRSI == 30
SellRSI == 70
DefaultMaxPE == 30
DefaultMinROE == 15

(* ---------------------- natural numbers of any size -------------------- *)
Limb == 2^30
HalfLimb == 2^15

LimbAt(a, j) == IF j <= Len(a) THEN a[j] ELSE 0

RECURSIVE BNorm(_)
BNorm(a) ==
  IF a = << >> THEN a
  ELSE IF a[Len(a)] = 0 THEN BNorm(SubSeq(a, 1, Len(a) - 1)) ELSE a

BFromInt(n) ==
  IF n = 0 THEN << >> ELSE IF n < Limb THEN <<n>> ELSE <<n % Limb, n \div Limb>>

BToInt(a) ==
  IF a = << >> THEN 0 ELSE IF Len(a) = 1 THEN a[1] ELSE a[1] + Limb * a[2]

RECURSIVE BCmpFrom(_, _, _)
BCmpFrom(a, b, j) ==
  IF j = 0 THEN 0
  ELSE IF a[j] # b[j] THEN (IF a[j] < b[j] THEN -1 ELSE 1)
  ELSE BCmpFrom(a, b, j - 1)

BCmp(a, b) ==
  IF Len(a) # Len(b) THEN (IF Len(a) < Len(b) THEN -1 ELSE 1)
  ELSE BCmpFrom(a, b, Len(a))

RECURSIVE BAddFrom(_, _, _, _)
BAddFrom(a, b, j, c) ==
  IF j > Len(a) /\ j > Len(b) THEN (IF c = 0 THEN << >> ELSE <<c>>)
  ELSE LET t == LimbAt(a, j) + LimbAt(b, j) + c
       IN  <<t % Limb>> \o BAddFrom(a, b, j + 1, t \div Limb)

BAdd(a, b) == BAddFrom(a, b, 1, 0)

RECURSIVE BSubFrom(_, _, _, _)
BSubFrom(a, b, j, c) ==
  IF j > Len(a) THEN << >>
  ELSE LET t == a[j] - LimbAt(b, j) - c
       IN  IF t < 0 THEN <<t + Limb>> \o BSubFrom(a, b, j + 1, 1)
           ELSE <<t>> \o BSubFrom(a, b, j + 1, 0)

\* a - b for a >= b
BSub(a, b) == BNorm(BSubFrom(a, b, 1, 0))

RECURSIVE BShlFrom(_, _, _, _)
BShlFrom(a, r, j, c) ==
  IF j > Len(a) THEN (IF c = 0 THEN << >> ELSE <<c>>)
  ELSE <<(a[j] % 2^(30 - r)) * 2^r + c>> \o BShlFrom(a, r, j + 1, a[j] \div 2^(30 - r))

\* a * 2^k
BShl(a, k) ==
  IF a = << >> THEN a
  ELSE [j \in 1..(k \div 30) |-> 0] \o BShlFrom(a, k % 30, 1, 0)

\* floor(a / 2^k)
BShr(a, k) ==
  LET w == k \div 30
      r == k % 30
      t == IF w >= Len(a) THEN << >> ELSE SubSeq(a, w + 1, Len(a))
  IN  BNorm([j \in 1..Len(t) |-> (t[j] \div 2^r) + (LimbAt(t, j + 1) % 2^r) * 2^(30 - r)])

RECURSIVE IntBitLen(_)
IntBitLen(n) == IF n = 0 THEN 0 ELSE 1 + IntBitLen(n \div 2)

BBitLen(a) == IF a = << >> THEN 0 ELSE 30 * (Len(a) - 1) + IntBitLen(a[Len(a)])

RECURSIVE BMulSmallFrom(_, _, _, _)
BMulSmallFrom(a, k, j, c) ==
  IF j > Len(a) THEN (IF c = 0 THEN << >> ELSE <<c>>)
  ELSE LET t0 == (a[j] % HalfLimb) * k + c
           t1 == (a[j] \div HalfLimb) * k + (t0 \div HalfLimb)
       IN  <<(t1 % HalfLimb) * HalfLimb + (t0 % HalfLimb)>>
             \o BMulSmallFrom(a, k, j + 1, t1 \div HalfLimb)

\* a * k for 0 <= k < 2^15
BMulSmall(a, k) == IF k = 0 THEN << >> ELSE BMulSmallFrom(a, k, 1, 0)

RECURSIVE BMulFrom(_, _, _)
BMulFrom(a, b, j) ==
  IF j > Len(b) THEN << >>
  ELSE BAdd(BAdd(BShl(BMulSmall(a, b[j] % HalfLimb), 30 * (j - 1)),
                 BShl(BMulSmall(a, b[j] \div HalfLimb), 30 * (j - 1) + 15)),
            BMulFrom(a, b, j + 1))

BMul(a, b) == BMulFrom(a, b, 1)

(* ------------------------------ binary64 ------------------------------- *)
Zero(s) == [k |-> "zero", s |-> s, m |-> << >>, e |-> 0]
NaN == [k |-> "nan", s |-> 0, m |-> << >>, e |-> 0]
Inf(s) == [k |-> "inf", s |-> s, m |-> << >>, e |-> 0]
None == [k |-> "none", s |-> 0, m |-> << >>, e |-> 0]
Finite(s, m, e) == [k |-> "num", s |-> s, m |-> m, e |-> e]

RECURSIVE ShortDivFrom(_, _, _, _)
\* a / d by 15-bit digits from limb j down, with the running remainder rem
ShortDivFrom(a, d, j, rem) ==
  IF j = 0 THEN [q |-> << >>, r |-> rem]
  ELSE LET t1 == rem * HalfLimb + (a[j] \div HalfLimb)
           t0 == (t1 % d) * HalfLimb + (a[j] % HalfLimb)
           rest == ShortDivFrom(a, d, j - 1, t0 % d)
       IN  [q |-> Append(rest.q, (t1 \div d) * HalfLimb + (t0 \div d)), r |-> rest.r]

\* quotient and remainder of a / d for 0 < d < 2^15
ShortDiv(a, d) ==
  LET qr == ShortDivFrom(a, d, Len(a), 0) IN [q |-> BNorm(qr.q), r |-> qr.r]

RECURSIVE LongDiv(_, _, _, _, _, _)
\* binary long division of numbers below 2^60 held as (high, low) limbs:
\* one quotient bit per step until the quotient qh:ql has 53 bits
LongDiv(qh, ql, rh, rl, dh, dl) ==
  IF qh >= 2^22 THEN [q |-> <<ql, qh>>, r |-> BNorm(<<rl, rh>>)]
  ELSE LET sl == (2 * rl) % Limb
           sh == 2 * rh + ((2 * rl) \div Limb)
           ge == sh > dh \/ (sh = dh /\ sl >= dl)
           tl == IF sl >= dl THEN sl - dl ELSE sl - dl + Limb
           th == IF sl >= dl THEN sh - dh ELSE sh - dh - 1
           pl == (2 * ql) % Limb
           ph == 2 * qh + ((2 * ql) \div Limb)
       IN  IF ge THEN LongDiv(ph, pl + 1, th, tl, dh, dl)
           ELSE LongDiv(ph, pl, sh, sl, dh, dl)

\* round up: the discarded part is above half (c > 0), or is half and q is odd
TieUp(c, q) == c > 0 \/ (c = 0 /\ LimbAt(q, 1) % 2 = 1)

\* the float of a 53- or 54-bit significand q1 and exponent x
Renorm(s, q1, x) ==
  IF BBitLen(q1) > 53 THEN Finite(s, BShr(q1, 1), x + 1) ELSE Finite(s, q1, x)

\* the float of the truncated significand q, rounded up when up
Bump(s, q, up, x) == Renorm(s, IF up THEN BAdd(q, <<1>>) ELSE q, x)

\* rounding of the 53- or 54-bit quotient qr.q with remainder qr.r of divisor d
RoundShortQR(s, qr, d, x) ==
  IF BBitLen(qr.q) > 53
  THEN Bump(s, BShr(qr.q, 1),
            qr.q[1] % 2 = 1 /\ (qr.r # 0 \/ (qr.q[1] \div 2) % 2 = 1), x + 1)
  ELSE Bump(s, qr.q, 2 * qr.r > d \/ (2 * qr.r = d /\ qr.q[1] % 2 = 1), x)

RoundShortT(s, N, d, x, t) == RoundShortQR(s, ShortDiv(BShl(N, t), d), d, x - t)

\* nearest even-tied 53-bit quotient of N / d for 0 < d < 2^15, N below 2^53
RoundShort(s, N, d, x) == RoundShortT(s, N, d, x, 53 - BBitLen(N) + IntBitLen(d))

\* rounding of the 53-bit quotient qr.q with remainder qr.r of divisor D0
RoundLongQR(s, qr, D0, x) ==
  Bump(s, qr.q, TieUp(BCmp(BShl(qr.r, 1), D0), qr.q), x)

\* quotient 1 + R0 / D0 for R0 < D0
RoundLongR(s, R0, D0, x) ==
  RoundLongQR(s, LongDiv(0, 1, LimbAt(R0, 2), LimbAt(R0, 1),
                         LimbAt(D0, 2), LimbAt(D0, 1)), D0, x)

\* quotient of N0 / D0 for N0, D0 of equal bit length
RoundLongN(s, N0, D0, x) ==
  IF BCmp(N0, D0) < 0 THEN RoundLongR(s, BSub(BShl(N0, 1), D0), D0, x - 1)
  ELSE RoundLongR(s, BSub(N0, D0), D0, x)

RoundLongD(s, N, D, x, d0) ==
  RoundLongN(s, IF d0 < 0 THEN BShl(N, -d0) ELSE N,
             IF d0 > 0 THEN BShl(D, d0) ELSE D, x + d0 - 52)

\* nearest even-tied 53-bit quotient of N / D for N, D below 2^59
RoundLong(s, N, D, x) == RoundLongD(s, N, D, x, BBitLen(N) - BBitLen(D))

\* the double nearest to (-1)^s * N / D * 2^x, ties to even
RoundRat(s, N, D, x) ==
  IF N = << >> THEN Zero(s)
  ELSE IF Len(D) = 1 /\ D[1] < HalfLimb /\ BBitLen(N) <= 53
  THEN RoundShort(s, N, D[1], x)
  ELSE RoundLong(s, N, D, x)

\* -1, 0, 1 as the low sh bits of N are below, at or above half
HalfCmp(N, q, sh) == BCmp(BShl(BSub(N, BShl(q, sh)), 1), BShl(<<1>>, sh))

RoundDyadicQ(s, N, q, sh, x) == Bump(s, q, TieUp(HalfCmp(N, q, sh), q), x + sh)

RoundDyadicB(s, N, x, bl) ==
  IF bl <= 53 THEN Finite(s, BShl(N, 53 - bl), x - (53 - bl))
  ELSE RoundDyadicQ(s, N, BShr(N, bl - 53), bl - 53, x)

\* the double nearest to N * 2^x
RoundDyadic(s, N, x) ==
  IF N = << >> THEN Zero(s) ELSE RoundDyadicB(s, N, x, BBitLen(N))

Abs(x) == IF x < 0 THEN -x ELSE x

\* the float written as the decimal or fraction n/d
Num(n, d) == RoundRat(IF n < 0 THEN 1 ELSE 0, BFromInt(Abs(n)), BFromInt(d), 0)

IsNaN(x) == x.k = "nan"
IsFinite(x) == x.k \in {"num", "zero"}
IsZero(x) == x.k = "zero"

FNeg(x) == IF x.k \in {"nan", "none"} THEN x ELSE [x EXCEPT !.s = 1 - x.s]

\* -1, 0, 1 as |a| <, =, > |b| for finite a, b
CmpAbs(a, b) ==
  CASE IsZero(a) /\ IsZero(b) -> 0
    [] IsZero(a) -> -1
    [] IsZero(b) -> 1
    [] a.e # b.e -> IF a.e < b.e THEN -1 ELSE 1
    [] OTHER -> BCmp(a.m, b.m)

\* the sum of (-1)^sa * A and (-1)^sb * B, both scaled by 2^x; c compares A, B
AddAligned(sa, sb, A, B, x, c) ==
  IF sa # sb /\ c = 0 THEN Zero(0)
  ELSE RoundDyadic(IF sa = sb \/ c > 0 THEN sa ELSE sb,
                   IF sa = sb THEN BAdd(A, B)
                   ELSE IF c > 0 THEN BSub(A, B) ELSE BSub(B, A), x)

AddShifted(sa, sb, A, B, x) == AddAligned(sa, sb, A, B, x, BCmp(A, B))

AddAt(a, b, x) ==
  AddShifted(a.s, b.s, BShl(a.m, a.e - x), BShl(b.m, b.e - x), x)

FAdd(a, b) ==
  CASE IsNaN(a) \/ IsNaN(b) -> NaN
    [] a.k = "inf" -> IF b.k = "inf" /\ b.s # a.s THEN NaN ELSE a
    [] b.k = "inf" -> b
    [] IsZero(a) /\ IsZero(b) -> IF a.s = 1 /\ b.s = 1 THEN Zero(1) ELSE Zero(0)
    [] IsZero(a) -> b
    [] IsZero(b) -> a
    [] OTHER -> AddAt(a, b, IF a.e < b.e THEN a.e ELSE b.e)

FSub(a, b) == FAdd(a, FNeg(b))

FMul(a, b) ==
  LET s == IF a.s = b.s THEN 0 ELSE 1
  IN  CASE IsNaN(a) \/ IsNaN(b) -> NaN
        [] a.k = "inf" \/ b.k = "inf" ->
             IF IsZero(a) \/ IsZero(b) THEN NaN ELSE Inf(s)
        [] IsZero(a) \/ IsZero(b) -> Zero(s)
        [] OTHER -> RoundDyadic(s, BMul(a.m, b.m), a.e + b.e)

FDiv(a, b) ==
  LET s == IF a.s = b.s THEN 0 ELSE 1
  IN  CASE IsNaN(a) \/ IsNaN(b) -> NaN
        [] a.k = "inf" -> IF b.k = "inf" THEN NaN ELSE Inf(s)
        [] b.k = "inf" -> Zero(s)
        [] IsZero(b) -> IF IsZero(a) THEN NaN ELSE Inf(s)
        [] IsZero(a) -> Zero(s)
        [] OTHER -> RoundRat(s, a.m, b.m, a.e - b.e)

FLt(a, b) ==
  CASE IsNaN(a) \/ IsNaN(b) -> FALSE
    [] a.k = "inf" -> a.s = 1 /\ ~(b.k = "inf" /\ b.s = 1)
    [] b.k = "inf" -> b.s = 0
    [] IsZero(a) /\ IsZero(b) -> FALSE
    [] IsZero(a) -> b.s = 0
    [] IsZero(b) -> a.s = 1
    [] a.s # b.s -> a.s = 1
    [] a.s = 0 -> CmpAbs(a, b) < 0
    [] OTHER -> CmpAbs(a, b) > 0

FGt(a, b) == FLt(b, a)
FLe(a, b) == ~IsNaN(a) /\ ~IsNaN(b) /\ ~FLt(b, a)
FGe(a, b) == FLe(b, a)

NearestIntQ(P, q, sh) ==
  IF TieUp(HalfCmp(P, q, sh), q) THEN BAdd(q, <<1>>) ELSE q

NearestIntP(P, e) ==
  IF e >= 0 THEN BShl(P, e) ELSE NearestIntQ(P, BShr(P, -e), -e)

\* |x| * c rounded half to even to an integer, for finite x and 0 < c < 2^15
NearestInt(x, c) ==
  IF IsZero(x) THEN << >> ELSE NearestIntP(BMulSmall(x.m, c), x.e)

\* Python round(x, 2) of a float: the exact binary value rounded to two
\* decimals, ties to even, and the double nearest to that decimal
Round2(x) ==
  IF x.k # "num" THEN x
  ELSE RoundRat(x.s, NearestInt(x, 100), <<100>>, 0)

\* numpy round(x, 2) of a float64: rint(x * 100) / 100
NpRound2(x) ==
  IF x.k # "num" THEN x
  ELSE RoundRat(x.s, NearestInt(FMul(x, Num(100, 1)), 1), <<100>>, 0)

\* the whole number a finite float holds
IntOf(x) ==
  IF IsZero(x) THEN 0
  ELSE LET v == BToInt(IF x.e >= 0 THEN BShl(x.m, x.e) ELSE BShr(x.m, -x.e))
       IN  IF x.s = 1 THEN -v ELSE v

(* ------------------------------ series --------------------------------- *)
RECURSIVE SumRange(_, _, _)
\* sum of the integer sequence s over positions lo..hi
SumRange(s, lo, hi) == IF lo > hi THEN 0 ELSE s[hi] + SumRange(s, lo, hi - 1)

\* series.diff(): the first bar has no predecessor and gets nan
Diff(series) ==
  [p \in 1..Len(series) |->
     IF p = 1 THEN NaN ELSE Num(series[p] - series[p - 1], 1)]

\* delta.where(delta > 0, 0): a nan delta fails the test and becomes 0
WhereGain(delta) ==
  [p \in 1..Len(delta) |-> IF FGt(delta[p], Zero(0)) THEN IntOf(delta[p]) ELSE 0]

\* delta.where(delta < 0, 0)
WhereLoss(delta) ==
  [p \in 1..Len(delta) |-> IF FLt(delta[p], Zero(0)) THEN IntOf(delta[p]) ELSE 0]

\* s.rolling(window).mean() of a series without nan: nan until window values
\* exist, then the exact window sum divided by the window
RollingMean(s, window) ==
  [p \in 1..Len(s) |->
     IF p < window THEN NaN ELSE Num(SumRange(s, p - window + 1, p), window)]

\* variant of calculate_rsi that forgets to negate the mean of the falls
calculate_rsi_unnegated(series, window) ==
  LET delta == Diff(series)
      gain == RollingMean(WhereGain(delta), window)
      loss == RollingMean(WhereLoss(delta), window)
  IN  [p \in 1..Len(series) |->
         FSub(Num(100, 1), FDiv(Num(100, 1), FAdd(Num(1, 1), FDiv(gain[p], loss[p]))))]

\* RSI column: 100 - 100 / (1 + gain / loss) on rolling means of rises and falls
calculate_rsi(series, window) ==
  LET delta == Diff(series)
      gain == RollingMean(WhereGain(delta), window)
      negmean == RollingMean(WhereLoss(delta), window)
      loss == [p \in 1..Len(series) |-> FNeg(negmean[p])]
      rs == [p \in 1..Len(series) |-> FDiv(gain[p], loss[p])]
  IN  [p \in 1..Len(series) |->
         FSub(Num(100, 1), FDiv(Num(100, 1), FAdd(Num(1, 1), rs[p])))]

\* data['Close'].rolling(20).mean()
SMA20(close) == RollingMean(close, SMAWindow)

\* data['Volume'] > 1.5 * data['Volume'].rolling(20).mean()
VolumeSpike(volume) ==
  LET volume_mean == RollingMean(volume, SMAWindow)
  IN  [p \in 1..Len(volume) |->
         FGt(Num(volume[p], 1), FMul(Num(3, 2), volume_mean[p]))]

\* variant of Signal that ignores the Close / SMA20 comparison
Signal_no_close(rsi, close, sma20) ==
  IF FLt(rsi, Num(BuyRSI, 1)) THEN "Buy"
  ELSE IF FGt(rsi, Num(SellRSI, 1)) THEN "Sell"
  ELSE "Hold"

\* the Buy / Sell / Hold rule applied to the latest bar
Signal(rsi, close, sma20) ==
  IF FLt(rsi, Num(BuyRSI, 1)) /\ FGt(close, sma20) THEN "Buy"
  ELSE IF FGt(rsi, Num(SellRSI, 1)) /\ FLt(close, sma20) THEN "Sell"
  ELSE "Hold"

(* ------------------------- market data inputs -------------------------- *)
Tickers == {"A.NS", "B.NS"}

\* info key that the provider did not return
Absent == [k |-> "absent", s |-> 0, m |-> << >>, e |-> 0]

\* closes: a first leg with slope s1, then a jump j and a last leg of k bars
\* with slope s2, plus an alternating component z on odd positions
MkSeries(L, s1, k, j, s2, z) ==
  LET b == IF L > k THEN L - k ELSE 0
  IN  [p \in 1..L |->
         200 + z * (p % 2)
         + (IF p <= b THEN s1 * (p - 1)
            ELSE s1 * (IF b > 0 THEN b - 1 ELSE 0) + j + s2 * (p - b - 1))]

MkVolume(L, spike) == [p \in 1..L |-> IF spike /\ p = L THEN 2000 ELSE 1000]

SeriesFamily ==
  { MkSeries(L, s1, k, j, s2, z) :
      L \in 0..MaxBars, s1 \in {-1, 0, 1}, k \in {14, 15},
      j \in {-50, 0, 50}, s2 \in {-1, 0, 1}, z \in {0, 2} }

Frame(close, spike) ==
  [columns |-> {"Close", "Volume"}, Close |-> close,
   Volume |-> MkVolume(Len(close), spike)]

Bundle(raises, pe, roe, frame) ==
  [raises |-> raises,
   info |-> [trailingPE |-> pe, returnOnEquity |-> roe],
   data |-> frame]

Rising(L) == MkSeries(L, 1, 15, 0, 1, 0)
BuySeries == MkSeries(20, 0, 15, 50, -1, 0)
SellSeries == MkSeries(25, 0, 15, -50, 1, 0)
ZigZag == MkSeries(25, 0, 15, 0, 0, 2)

\* what fetch_stock_bundle can give for one ticker
Catalogue ==
  { Bundle(TRUE, Absent, Absent, Frame(<< >>, FALSE)),
    Bundle(FALSE, Absent, Num(1, 5), Frame(Rising(25), FALSE)),
    Bundle(FALSE, Num(10, 1), None, Frame(Rising(25), FALSE)),
    Bundle(FALSE, Num(10, 1), Num(1, 5), Frame(<< >>, FALSE)),
    Bundle(FALSE, Num(10, 1), Num(1, 5),
           [columns |-> {"Close"}, Close |-> Rising(25), Volume |-> << >>]),
    Bundle(FALSE, Num(10, 1), Num(1, 5), Frame(Rising(5), FALSE)),
    Bundle(FALSE, Num(12, 1), Num(1, 4), Frame(Rising(14), FALSE)),
    Bundle(FALSE, Num(10, 1), Num(1, 5), Frame(Rising(19), TRUE)),
    Bundle(FALSE, Num(30, 1), Num(15, 100), Frame(BuySeries, FALSE)),
    Bundle(FALSE, Num(50, 1), Num(1, 5), Frame(SellSeries, TRUE)),
    Bundle(FALSE, Num(2675, 1000), Num(14995, 100000), Frame(ZigZag, FALSE)),
    Bundle(FALSE, Num(30005, 1000), Num(19995, 100000), Frame(Rising(25), FALSE)) }

RECURSIVE SeqsUpTo(_, _)
\* all sequences over S of length at most n
SeqsUpTo(S, n) ==
  IF n = 0 THEN {<< >>}
  ELSE LET shorter == SeqsUpTo(S, n - 1)
       IN  shorter \cup { Append(q, x) : q \in shorter, x \in S }

(* ------------------------------- state --------------------------------- *)
\* Streamlit runs the script of each browser session in a thread of its own
Sessions == {"s1", "s2"}

VARIABLES
  selected_tickers, plot_tickers, max_pe_filter, min_roe_filter,
  provider, pc, i, summary_data, calls, result_df, filtered_df,
  series, rsi, sma20, signal, ipc

args == <<selected_tickers, plot_tickers, max_pe_filter, min_roe_filter, provider>>
screen == <<pc, i, summary_data, calls, result_df, filtered_df>>
ind == <<series, rsi, sma20, signal, ipc>>
vars == <<args, screen, ind>>

(* --------------------------- run_screener ------------------------------ *)
\* variant of InfoGet that defaults a missing key to 0
InfoGet_default(info, key) ==
  IF info[key].k = "absent" THEN Zero(0) ELSE info[key]

\* info.get(key): None when the key is missing
InfoGet(info, key) ==
  IF info[key].k = "absent" THEN None ELSE info[key]

\* data.empty: no rows or no columns
Empty(data) == data.columns = {} \/ Len(data.Close) = 0

Call(s, name, arg, raised) ==
  [session |-> s, call |-> name, arg |-> arg, raised |-> raised]

\* variant of AppendRow that inserts at the front
AppendRow_front(rows, row) == <<row>> \o rows

\* summary_data.append(row)
AppendRow(rows, row) == Append(rows, row)

\* variant of FilterRows with PE Ratio < max_pe_filter
FilterRows_strict(rows, max_pe, min_roe) ==
  SelectSeq(rows, LAMBDA r :
    FLt(r.PE_Ratio, Num(max_pe, 1)) /\ FGe(r.ROE_pct, Num(min_roe, 1)))

\* result_df[(PE Ratio <= max_pe_filter) & (ROE (%) >= min_roe_filter)]
FilterRows(rows, max_pe, min_roe) ==
  SelectSeq(rows, LAMBDA r :
    FLe(r.PE_Ratio, Num(max_pe, 1)) /\ FGe(r.ROE_pct, Num(min_roe, 1)))

\* the row run_screener builds for one ticker from its fundamentals and frame
Row(ticker, pe, roe, data) ==
  LET roe_percent == Round2(FMul(roe, Num(100, 1)))
      last == Len(data.Close)
      last_rsi == calculate_rsi(data.Close, RSIWindow)[last]
      last_sma == SMA20(data.Close)[last]
      last_spike == VolumeSpike(data.Volume)[last]
  IN  [Ticker |-> ticker,
       PE_Ratio |-> Round2(pe),
       ROE_pct |-> roe_percent,
       RSI |-> NpRound2(last_rsi),
       Volume_Spike_Today |-> IF last_spike THEN "Yes" ELSE "No",
       Signal |-> Signal(last_rsi, Num(data.Close[last], 1), last_sma)]

ticker(s) == selected_tickers[s][i[s]]
bundle(s) == provider[ticker(s)]
pe(s) == InfoGet(bundle(s).info, "trailingPE")
roe(s) == InfoGet(bundle(s).info, "returnOnEquity")

\* one call of run_screener, in session s1; no other session is running
Init ==
  /\ selected_tickers \in
       { [s \in Sessions |-> IF s = "s1" THEN q ELSE << >>] :
           q \in SeqsUpTo(Tickers, MaxTickers) }
  /\ plot_tickers = [s \in Sessions |-> IF s = "s1" THEN {"A.NS"} ELSE {}]
  /\ max_pe_filter \in
       { [s \in Sessions |-> IF s = "s1" THEN v ELSE DefaultMaxPE] :
           v \in {-1, DefaultMaxPE} }
  /\ min_roe_filter \in
       { [s \in Sessions |-> IF s = "s1" THEN v ELSE DefaultMinROE] :
           v \in {DefaultMinROE, 20} }
  /\ provider \in [Tickers -> Catalogue]
  /\ pc = [s \in Sessions |-> IF s = "s1" THEN "for" ELSE "idle"]
  /\ i = [s \in Sessions |-> 1]
  /\ summary_data = [s \in Sessions |-> << >>]
  /\ calls = << >>
  /\ result_df = [s \in Sessions |-> << >>]
  /\ filtered_df = [s \in Sessions |-> << >>]
  /\ series = << >>
  /\ rsi = << >>
  /\ sma20 = << >>
  /\ signal = "Hold"
  /\ ipc = "idle"

\* the loop takes the next ticker and calls fetch_stock_bundle, which blocks
\* on the network while the threads of other sessions run
Fetch(s) ==
  /\ pc[s] = "for"
  /\ i[s] <= Len(selected_tickers[s])
  /\ pc' = [pc EXCEPT ![s] = "fetching"]
  /\ UNCHANGED <<args, i, summary_data, calls, result_df, filtered_df, ind>>

\* variant of FetchRaises without the except clause: the error leaves run_screener
FetchRaises_propagates(s) ==
  /\ pc[s] = "fetching"
  /\ bundle(s).raises
  /\ calls' = Append(calls, Call(s, "fetch_stock_bundle", ticker(s), TRUE))
  /\ pc' = [pc EXCEPT ![s] = "raised"]
  /\ UNCHANGED <<args, i, summary_data, result_df, filtered_df, ind>>

\* fetch_stock_bundle raises: the except clause prints and continues
FetchRaises(s) ==
  /\ pc[s] = "fetching"
  /\ bundle(s).raises
  /\ calls' = calls \o << Call(s, "fetch_stock_bundle", ticker(s), TRUE),
                          Call(s, "print", ticker(s), FALSE) >>
  /\ i' = [i EXCEPT ![s] = i[s] + 1]
  /\ pc' = [pc EXCEPT ![s] = "for"]
  /\ UNCHANGED <<args, summary_data, result_df, filtered_df, ind>>

\* the fetch returns; pe is None or roe is None or data.empty: continue
SkipTicker(s) ==
  /\ pc[s] = "fetching"
  /\ ~bundle(s).raises
  /\ pe(s) = None \/ roe(s) = None \/ Empty(bundle(s).data)
  /\ calls' = Append(calls, Call(s, "fetch_stock_bundle", ticker(s), FALSE))
  /\ i' = [i EXCEPT ![s] = i[s] + 1]
  /\ pc' = [pc EXCEPT ![s] = "for"]
  /\ UNCHANGED <<args, summary_data, result_df, filtered_df, ind>>

\* the fetch returns with fundamentals and data: time.sleep(1.1) begins, and
\* the thread waits while the threads of other sessions run
Sleep(s) ==
  /\ pc[s] = "fetching"
  /\ ~bundle(s).raises
  /\ ~(pe(s) = None \/ roe(s) = None \/ Empty(bundle(s).data))
  /\ calls' = calls \o << Call(s, "fetch_stock_bundle", ticker(s), FALSE),
                          Call(s, "time.sleep", ticker(s), FALSE) >>
  /\ pc' = [pc EXCEPT ![s] = "sleeping"]
  /\ UNCHANGED <<args, i, summary_data, result_df, filtered_df, ind>>

\* the sleep is over and the frame lacks a column the indicator block reads:
\* KeyError, caught by the except clause
ScreenRaises(s) ==
  /\ pc[s] = "sleeping"
  /\ ~({"Close", "Volume"} \subseteq bundle(s).data.columns)
  /\ calls' = Append(calls, Call(s, "print", ticker(s), FALSE))
  /\ i' = [i EXCEPT ![s] = i[s] + 1]
  /\ pc' = [pc EXCEPT ![s] = "for"]
  /\ UNCHANGED <<args, summary_data, result_df, filtered_df, ind>>

\* the sleep is over: indicators, signal, optional chart, append the row
ScreenTicker(s) ==
  /\ pc[s] = "sleeping"
  /\ {"Close", "Volume"} \subseteq bundle(s).data.columns
  /\ calls' = IF ticker(s) \in plot_tickers[s]
              THEN Append(calls, Call(s, "savefig", ticker(s), FALSE)) ELSE calls
  /\ summary_data' =
       [summary_data EXCEPT
          ![s] = AppendRow(summary_data[s],
                           Row(ticker(s), pe(s), roe(s), bundle(s).data))]
  /\ i' = [i EXCEPT ![s] = i[s] + 1]
  /\ pc' = [pc EXCEPT ![s] = "for"]
  /\ UNCHANGED <<args, result_df, filtered_df, ind>>

\* after the loop: build both tables, export them unless the table is empty
Finish(s) ==
  /\ pc[s] = "for"
  /\ i[s] > Len(selected_tickers[s])
  /\ result_df' = [result_df EXCEPT ![s] = summary_data[s]]
  /\ IF summary_data[s] = << >>
     THEN /\ filtered_df' = [filtered_df EXCEPT ![s] = summary_data[s]]
          /\ calls' = calls
     ELSE /\ filtered_df' =
               [filtered_df EXCEPT
                  ![s] = FilterRows(summary_data[s], max_pe_filter[s],
                                    min_roe_filter[s])]
          /\ calls' = calls \o << Call(s, "to_excel", "all_results", FALSE),
                                  Call(s, "to_excel", "filtered_results", FALSE) >>
  /\ pc' = [pc EXCEPT ![s] = "done"]
  /\ UNCHANGED <<args, i, summary_data, ind>>

Next ==
  \E s \in Sessions :
    \/ Fetch(s) \/ FetchRaises(s) \/ SkipTicker(s) \/ Sleep(s)
    \/ ScreenRaises(s) \/ ScreenTicker(s) \/ Finish(s)

Spec == Init /\ [][Next]_vars

(* ----------------------- two sessions at once -------------------------- *)
\* what fetch_stock_bundle gives in the runs of two concurrent sessions
SessionCatalogue ==
  { Bundle(TRUE, Absent, Absent, Frame(<< >>, FALSE)),
    Bundle(FALSE, Num(10, 1), None, Frame(Rising(25), FALSE)),
    Bundle(FALSE, Num(10, 1), Num(1, 5),
           [columns |-> {"Close"}, Close |-> Rising(25), Volume |-> << >>]),
    Bundle(FALSE, Num(30, 1), Num(15, 100), Frame(BuySeries, FALSE)) }

\* both sessions call run_screener, each with a ticker list of its own; the
\* second session screens one ticker
InitSessions ==
  /\ selected_tickers \in
       { [s \in Sessions |-> IF s = "s1" THEN q ELSE <<t>>] :
           q \in SeqsUpTo(Tickers, MaxTickers), t \in Tickers }
  /\ plot_tickers = [s \in Sessions |-> IF s = "s1" THEN {"A.NS"} ELSE {}]
  /\ max_pe_filter = [s \in Sessions |-> DefaultMaxPE]
  /\ min_roe_filter = [s \in Sessions |-> DefaultMinROE]
  /\ provider \in [Tickers -> SessionCatalogue]
  /\ pc = [s \in Sessions |-> "for"]
  /\ i = [s \in Sessions |-> 1]
  /\ summary_data = [s \in Sessions |-> << >>]
  /\ calls = << >>
  /\ result_df = [s \in Sessions |-> << >>]
  /\ filtered_df = [s \in Sessions |-> << >>]
  /\ series = << >>
  /\ rsi = << >>
  /\ sma20 = << >>
  /\ signal = "Hold"
  /\ ipc = "idle"

SpecSessions == InitSessions /\ [][Next]_vars

(* ---------------------- indicators on one series ----------------------- *)
InitInd ==
  /\ series \in SeriesFamily
  /\ rsi = << >>
  /\ sma20 = << >>
  /\ signal = "Hold"
  /\ ipc = "input"
  /\ selected_tickers = [s \in Sessions |-> << >>]
  /\ plot_tickers = [s \in Sessions |-> {}]
  /\ max_pe_filter = [s \in Sessions |-> DefaultMaxPE]
  /\ min_roe_filter = [s \in Sessions |-> DefaultMinROE]
  /\ provider = [t \in Tickers |-> Bundle(TRUE, Absent, Absent, Frame(<< >>, FALSE))]
  /\ pc = [s \in Sessions |-> "idle"]
  /\ i = [s \in Sessions |-> 1]
  /\ summary_data = [s \in Sessions |-> << >>]
  /\ calls = << >>
  /\ result_df = [s \in Sessions |-> << >>]
  /\ filtered_df = [s \in Sessions |-> << >>]

\* data['RSI'] = calculate_rsi(data['Close']); data['SMA20'] = rolling mean
ComputeIndicators ==
  /\ ipc = "input"
  /\ rsi' = calculate_rsi(series, RSIWindow)
  /\ sma20' = SMA20(series)
  /\ ipc' = "indicators"
  /\ UNCHANGED <<args, screen, series, signal>>

\* last_row = data.iloc[-1] and the signal rule
Classify ==
  /\ ipc = "indicators"
  /\ Len(series) > 0
  /\ signal' = Signal(rsi[Len(series)], Num(series[Len(series)], 1), sma20[Len(series)])
  /\ ipc' = "classified"
  /\ UNCHANGED <<args, screen, series, rsi, sma20>>

NextInd == ComputeIndicators \/ Classify

SpecInd == InitInd /\ [][NextInd]_vars

(* ------------------------- helpers of the claims ----------------------- *)
\* the bundle had both fundamentals
HasFundamentals(b) ==
  /\ b.info.trailingPE.k \notin {"absent", "none"}
  /\ b.info.returnOnEquity.k \notin {"absent", "none"}

\* the ways processing of one ticker fails
Fails(b) ==
  \/ b.raises
  \/ ~HasFundamentals(b)
  \/ Len(b.data.Close) = 0
  \/ "Close" \notin b.data.columns
  \/ "Volume" \notin b.data.columns

TickerCol(rows) == [k \in 1..Len(rows) |-> rows[k].Ticker]

RECURSIVE IsSubseq(_, _)
\* a can be obtained from b by deleting elements
IsSubseq(a, b) ==
  IF a = << >> THEN TRUE
  ELSE IF b = << >> THEN FALSE
  ELSE IF Head(a) = Head(b) THEN IsSubseq(Tail(a), Tail(b))
  ELSE IsSubseq(a, Tail(b))

IsFetch(c) == c.call = "fetch_stock_bundle"

\* the calls session s has made, in order
CallsOf(s) == SelectSeq(calls, LAMBDA c : c.session = s)

\* the tickers whose fetch has come back in session s, in order
FetchedTickers(s) ==
  LET f == SelectSeq(CallsOf(s), IsFetch) IN [k \in 1..Len(f) |-> f[k].arg]

\* sign of x - n/d for a finite float x, by exact integer arithmetic
CmpRat(x, n, d) ==
  LET sx == IF IsZero(x) THEN 0 ELSE IF x.s = 1 THEN -1 ELSE 1
      sq == IF n = 0 THEN 0 ELSE IF n < 0 THEN -1 ELSE 1
  IN  IF sx # sq THEN (IF sx < sq THEN -1 ELSE 1)
      ELSE IF sx = 0 THEN 0
      ELSE LET L0 == BMul(x.m, BFromInt(d))
               R0 == BFromInt(Abs(n))
               L == IF x.e > 0 THEN BShl(L0, x.e) ELSE L0
               R == IF x.e < 0 THEN BShl(R0, -x.e) ELSE R0
           IN  sx * BCmp(L, R)

\* |x - n/d| <= 2^-40 for a positive float x below 2^53 and n, d > 0
NearRat(x, n, d) ==
  /\ x.k = "num"
  /\ x.s = 0
  /\ x.e < 0
  /\ LET L == BMul(x.m, BFromInt(d))
         R == BShl(BFromInt(n), -x.e)
         diff == IF BCmp(L, R) >= 0 THEN BSub(L, R) ELSE BSub(R, L)
     IN  BCmp(BShl(diff, 40), BShl(BFromInt(d), -x.e)) <= 0

\* the row is a finite number within both filter bounds of session s
WithinBounds(r, s) ==
  /\ IsFinite(r.PE_Ratio)
  /\ IsFinite(r.ROE_pct)
  /\ CmpRat(r.PE_Ratio, max_pe_filter[s], 1) <= 0
  /\ CmpRat(r.ROE_pct, min_roe_filter[s], 1) >= 0

RECURSIVE UpMoves(_, _, _)
\* sum of the rises close[q] - close[q-1] > 0 for q in lo..hi
UpMoves(s, lo, hi) ==
  IF lo > hi THEN 0
  ELSE (IF s[hi] > s[hi - 1] THEN s[hi] - s[hi - 1] ELSE 0) + UpMoves(s, lo, hi - 1)

RECURSIVE DownMoves(_, _, _)
\* sum of the falls close[q-1] - close[q] > 0 for q in lo..hi
DownMoves(s, lo, hi) ==
  IF lo > hi THEN 0
  ELSE (IF s[hi] < s[hi - 1] THEN s[hi - 1] - s[hi] ELSE 0) + DownMoves(s, lo, hi - 1)

Last == Len(series)

(* ------------------------------- claims -------------------------------- *)

\* C1: a ticker with fewer than 20 bars gets no row; a row exists only for a
\* ticker with both fundamentals, a non-empty series and a defined RSI and
\* SMA20 on the latest bar.
C1_ShortHistoryExcluded ==
  \A s \in Sessions : \A k \in 1..Len(summary_data[s]) :
    LET b == provider[summary_data[s][k].Ticker]
        n == Len(b.data.Close)
    IN  /\ HasFundamentals(b)
        /\ n >= SMAWindow
        /\ ~IsNaN(summary_data[s][k].RSI)
        /\ ~IsNaN(SMA20(b.data.Close)[n])

\* C2: whatever tickers fail, the pass ends normally having fetched every
\* ticker of the list in order, and every ticker that did not fail has as
\* many rows in the full table as it has positions in the list.
C2_PartialFailureContinues ==
  \A s \in Sessions :
    /\ pc[s] \in {"idle", "for", "fetching", "sleeping", "done"}
    /\ pc[s] = "done" =>
         /\ FetchedTickers(s) = selected_tickers[s]
         /\ \A t \in Tickers :
              ~Fails(provider[t]) =>
                Cardinality({k \in 1..Len(result_df[s]) : result_df[s][k].Ticker = t})
                  >= Cardinality({p \in 1..Len(selected_tickers[s]) :
                                    selected_tickers[s][p] = t})

C2_Witness ==
  \E s \in Sessions :
    /\ pc[s] = "done"
    /\ \E p, q \in 1..Len(selected_tickers[s]) :
         /\ p < q
         /\ provider[selected_tickers[s][p]].raises
         /\ ~Fails(provider[selected_tickers[s][q]])
         /\ \E k \in 1..Len(result_df[s]) :
              result_df[s][k].Ticker = selected_tickers[s][q]

\* C3: the filtered table is exactly the rows of the full table with
\* PE Ratio <= max_pe_filter and ROE (%) >= min_roe_filter, and it is empty
\* when the full table is empty.
C3_FilteredIsBoundedSubset ==
  \A s \in Sessions :
    pc[s] = "done" =>
      /\ \A k \in 1..Len(filtered_df[s]) :
           /\ \E m \in 1..Len(result_df[s]) : result_df[s][m] = filtered_df[s][k]
           /\ WithinBounds(filtered_df[s][k], s)
      /\ \A m \in 1..Len(result_df[s]) :
           WithinBounds(result_df[s][m], s) =>
             \E k \in 1..Len(filtered_df[s]) : filtered_df[s][k] = result_df[s][m]
      /\ IsSubseq(filtered_df[s], result_df[s])
      /\ result_df[s] = << >> => filtered_df[s] = << >>

C3_Witness ==
  \E s \in Sessions :
    /\ pc[s] = "done"
    /\ filtered_df[s] # << >>
    /\ Len(filtered_df[s]) < Len(result_df[s])
    /\ \E k \in 1..Len(filtered_df[s]) :
         filtered_df[s][k].PE_Ratio = Num(max_pe_filter[s], 1)

\* C4: the signal is Buy exactly when the latest RSI < 30 and Close > SMA20,
\* Sell exactly when RSI > 70 and Close < SMA20, Hold otherwise, and Hold
\* whenever RSI or SMA20 is undefined.
C4_SignalRule ==
  ipc = "classified" =>
    LET r == rsi[Last]
        m == sma20[Last]
        c == series[Last]
        def == IsFinite(r) /\ IsFinite(m)
        buy == def /\ CmpRat(r, BuyRSI, 1) < 0 /\ CmpRat(m, c, 1) < 0
        sell == def /\ CmpRat(r, SellRSI, 1) > 0 /\ CmpRat(m, c, 1) > 0
    IN  /\ signal = "Buy" <=> buy
        /\ signal = "Sell" <=> sell
        /\ signal = "Hold" <=> (~buy /\ ~sell)
        /\ ~(buy /\ sell)

C4_Witness ==
  /\ ipc = "classified"
  /\ signal = "Buy"
  /\ IsFinite(rsi[Last])
  /\ IsFinite(sma20[Last])

\* C5: a ticker whose fundamentals lack trailingPE or returnOnEquity is in
\* no table.
C5_NoFundamentalsNoRow ==
  \A s \in Sessions : \A t \in Tickers :
    ~HasFundamentals(provider[t]) =>
      /\ \A k \in 1..Len(summary_data[s]) : summary_data[s][k].Ticker # t
      /\ \A k \in 1..Len(result_df[s]) : result_df[s][k].Ticker # t
      /\ \A k \in 1..Len(filtered_df[s]) : filtered_df[s][k].Ticker # t

C5_Witness ==
  \E s \in Sessions :
    /\ pc[s] = "done"
    /\ result_df[s] # << >>
    /\ \E p \in 1..Len(selected_tickers[s]) :
         LET b == provider[selected_tickers[s][p]]
         IN  /\ ~b.raises
             /\ ~HasFundamentals(b)
             /\ Len(b.data.Close) >= SMAWindow

\* C6: in every session, also while another session runs, the tickers of the
\* rows built so far are a subsequence of the tickers already visited, so
\* rows are in input order, one at most per position.
C6_RowsInInputOrder ==
  \A s \in Sessions :
    /\ IsSubseq(TickerCol(summary_data[s]),
                SubSeq(selected_tickers[s], 1, i[s] - 1))
    /\ Len(summary_data[s]) <= i[s] - 1
    /\ pc[s] = "done" => IsSubseq(TickerCol(result_df[s]), selected_tickers[s])

C6_Witness ==
  /\ \A s \in Sessions : pc[s] = "done"
  /\ \E s \in Sessions :
       /\ selected_tickers[s] # selected_tickers["s2"]
       /\ Len(result_df[s]) >= 2
       /\ result_df[s][1].Ticker # result_df[s][2].Ticker
       /\ TickerCol(result_df[s]) = selected_tickers[s]
  /\ \E k \in 1..Len(calls) :
       /\ k + 1 < Len(calls)
       /\ calls[k].call = "time.sleep"
       /\ calls[k + 1].session # calls[k].session
       /\ IsFetch(calls[k + 1])

\* C7: within one pass, after a fetch that returned, a sleep happens before
\* the fetch of the next ticker returns.
C7_SleepAfterEachSuccessfulFetch ==
  \A s \in Sessions :
    LET own == CallsOf(s)
    IN  \A a, b \in 1..Len(own) :
          (a < b /\ IsFetch(own[a]) /\ ~own[a].raised /\ IsFetch(own[b])) =>
            \E m \in (a + 1)..(b - 1) : own[m].call = "time.sleep"

\* C8: with a negative max_pe_filter nothing is fetched and no row is built.
C8_InvalidBoundsRejected ==
  \A s \in Sessions :
    max_pe_filter[s] < 0 =>
      /\ \A k \in 1..Len(calls) : calls[k].session # s
      /\ pc[s] \in {"idle", "for", "done"}
      /\ summary_data[s] = << >>

\* C9: the RSI column has one value per bar, and the bars with pandas index
\* 0..13 (positions 1..14) have an undefined RSI.
C9_WarmupUndefined ==
  ipc # "input" =>
    /\ Len(rsi) = Len(series)
    /\ \A p \in 1..Len(rsi) : p <= RSIWindow => IsNaN(rsi[p])

\* C10: on every bar with 14 real deltas behind it, RSI is 100 when only
\* gains occurred, undefined when nothing moved, 0 when only losses occurred,
\* and otherwise the double that 100 - 100 / (1 + gain / loss) evaluates to,
\* which is within 2^-40 of 100 * gain / (gain + loss); a defined RSI is
\* within [0, 100].
C10_RSIValues ==
  ipc # "input" =>
    \A p \in (RSIWindow + 1)..Len(series) :
      LET g == UpMoves(series, p - RSIWindow + 1, p)
          l == DownMoves(series, p - RSIWindow + 1, p)
          v == rsi[p]
      IN  /\ (l = 0 /\ g > 0) => v = Num(100, 1)
          /\ (l = 0 /\ g = 0) => IsNaN(v)
          /\ (g = 0 /\ l > 0) => v = Zero(0)
          /\ (g > 0 /\ l > 0) => NearRat(v, 100 * g, g + l)
          /\ ~IsNaN(v) =>
               (IsFinite(v) /\ CmpRat(v, 0, 1) >= 0 /\ CmpRat(v, 100, 1) <= 0)

C10_Witness ==
  /\ ipc # "input"
  /\ \E p, q \in (RSIWindow + 1)..Len(series) :
       /\ rsi[p] = Num(100, 1)
       /\ IsFinite(rsi[q])
       /\ CmpRat(rsi[q], 0, 1) > 0
       /\ CmpRat(rsi[q], 100, 1) < 0

====
